---- MODULE Spec2Model ----
(***************************************************************************)
(* Model of ProductsScreen, src/app/(tabs)/index.tsx: the React component  *)
(* state (products, loading, error), the asynchronous fetchProducts, the   *)
(* synchronous handleSearch and the view the render function selects.      *)
(*                                                                         *)
(* Two specifications are given.  Spec drives the component through the    *)
(* controls the rendered view offers: the mount effect, the Header search  *)
(* box (in every view) and the 'Try Again' button (in the Error view       *)
(* only).  SpecDirect calls fetchProducts in any view, which is what the   *)
(* refresh() operation of the written specification allows; every          *)
(* behaviour of Spec is a behaviour of SpecDirect.                         *)
(***************************************************************************)
EXTENDS Integers, Sequences, FiniteSets, TLC

(* ---------------------------- bounds ---------------------------------- *)
MaxFetches == 2      \* calls of fetchProducts in one behaviour
MaxBatch == 2        \* products in one getProducts() result
MaxQueryLen == 2     \* characters in one search query

(* ---------------------------- data ------------------------------------ *)
\* A string is a sequence of one-character strings.
QueryChars == {"c", "H"}

\* String.prototype.toLowerCase, character by character.
LowerChar(c) ==
  CASE c = "C" -> "c"
    [] c = "T" -> "t"
    [] c = "H" -> "h"
    [] c = "A" -> "a"
    [] c = "Z" -> "z"
    [] OTHER -> c

toLowerCase(s) == [i \in 1..Len(s) |-> LowerChar(s[i])]

\* String.prototype.includes: t occurs in s as a contiguous substring.
includes(s, t) ==
  \E i \in 0..(Len(s) - Len(t)) : SubSeq(s, i + 1, i + Len(t)) = t

\* Product, as far as the component reads it: id and name.
Chair == [id |-> 1, name |-> <<"C", "h">>]
Table == [id |-> 2, name |-> <<"T", "a">>]
Chart == [id |-> 3, name |-> <<"c", "H">>]
Products == {Chair, Table, Chart}

RECURSIVE SeqsUpTo(_, _)
SeqsUpTo(S, n) ==
  IF n = 0 THEN {<<>>}
  ELSE LET shorter == SeqsUpTo(S, n - 1)
       IN shorter \cup {Append(s, x) : s \in {t \in shorter : Len(t) = n - 1}, x \in S}

\* What getProducts() can resolve with: ids are unique within a batch.
Batches ==
  {b \in SeqsUpTo(Products, MaxBatch) :
     \A i, j \in 1..Len(b) : i # j => b[i].id # b[j].id}

\* What getProducts() can reject with (the raw error).
Causes == {"NetworkError", "Http500"}

\* What the Header can pass to onSearch.
Queries == SeqsUpTo(QueryChars, MaxQueryLen)

Null == "null"
ErrorMessage == "Failed to fetch products"

(* ---------------------------- state ----------------------------------- *)
VARIABLES
  products,      \* useState<Product[]>([])
  loading,       \* useState<boolean>(false)
  error,         \* useState<string | null>(null)
  mounted,       \* the mount effect has run
  fetches,       \* one record per fetchProducts call, in call order
  console,       \* the last console.log / console.error call
  authoritative, \* the value given to setProducts by the last successful fetch
  sinceLoaded,   \* only searches have run since a fetch left the view Loaded
  overlapped,    \* the fetches that were in flight together with another one
  invocations,   \* how many times fetchProducts has been invoked
  searchText,    \* the query of the most recent onSearch call
  lastOp         \* the handler that ran last, with its input

vars == <<products, loading, error, mounted, fetches, console,
          authoritative, sinceLoaded, overlapped, invocations, searchText,
          lastOp>>

\* The pending getProducts() promises.
inflight == {i \in 1..Len(fetches) : fetches[i].status = "pending"}

\* JavaScript truthiness of `error` in `if (error)`.
Truthy(e) == e # Null /\ e # ""

\* The render function without its products.length === 0 branch.
ViewOf_NoEmptyBranch(l, e, p) ==
  IF l THEN "Loading"
  ELSE IF Truthy(e) THEN "Error"
  ELSE "Loaded"

\* Which of the four returns of the render function is taken.
ViewOf(l, e, p) ==
  IF l THEN "Loading"
  ELSE IF Truthy(e) THEN "Error"
  ELSE IF Len(p) = 0 THEN "Empty"
  ELSE "Loaded"

View == ViewOf(loading, error, products)

Init ==
  /\ products = <<>>
  /\ loading = FALSE
  /\ error = Null
  /\ mounted = FALSE
  /\ fetches = <<>>
  /\ console = [level |-> "none", payload |-> <<>>]
  /\ authoritative = <<>>
  /\ sinceLoaded = FALSE
  /\ overlapped = {}
  /\ invocations = 0
  /\ searchText = <<>>
  /\ lastOp = [op |-> "init"]

(* ---------------------------- fetchProducts --------------------------- *)
\* fetchProducts without its setError(null).
FetchProductsStart_KeepError ==
  /\ Len(fetches) < MaxFetches
  /\ loading' = TRUE
  /\ error' = error
  /\ fetches' = Append(fetches, [status |-> "pending", from |-> View])
  /\ overlapped' = IF inflight = {} THEN overlapped
                   ELSE overlapped \cup inflight \cup {Len(fetches) + 1}
  /\ sinceLoaded' = FALSE
  /\ UNCHANGED <<products, console, authoritative>>

\* fetchProducts that does not call getProducts() while a fetch is pending.
FetchProductsStart_Dedup ==
  /\ Len(fetches) < MaxFetches
  /\ loading' = TRUE
  /\ error' = Null
  /\ fetches' = IF inflight # {} THEN fetches
                ELSE Append(fetches, [status |-> "pending", from |-> View])
  /\ overlapped' = overlapped
  /\ sinceLoaded' = FALSE
  /\ UNCHANGED <<products, console, authoritative>>

\* The synchronous part, up to the await: setLoading(true), setError(null),
\* and the call of getProducts().
FetchProductsStart ==
  /\ Len(fetches) < MaxFetches
  /\ loading' = TRUE
  /\ error' = Null
  /\ fetches' = Append(fetches, [status |-> "pending", from |-> View])
  /\ overlapped' = IF inflight = {} THEN overlapped
                   ELSE overlapped \cup inflight \cup {Len(fetches) + 1}
  /\ sinceLoaded' = FALSE
  /\ UNCHANGED <<products, console, authoritative>>

\* A try branch that adds the result to the list instead of replacing it.
Fetched_Appended(f, fetchedProducts) == products \o fetchedProducts

\* A try branch that drops the result of every fetch but the newest one.
Fetched_LatestOnly(f, fetchedProducts) ==
  IF f = Len(fetches) THEN fetchedProducts ELSE products

\* What the try branch passes to setProducts.
Fetched(f, fetchedProducts) == fetchedProducts

\* The continuation after getProducts() resolved: console.log, setProducts,
\* and setLoading(false) of the finally block.
ResolveFetch(f, fetchedProducts) ==
  /\ f \in inflight
  /\ fetches' = [fetches EXCEPT ![f].status = "ok"]
  /\ console' = [level |-> "log", payload |-> fetchedProducts]
  /\ products' = Fetched(f, fetchedProducts)
  /\ loading' = FALSE
  /\ authoritative' = fetchedProducts
  /\ UNCHANGED <<error, mounted, overlapped, invocations, searchText>>
  /\ sinceLoaded' = (ViewOf(loading', error', products') = "Loaded")
  /\ lastOp' = [op |-> "resolve", id |-> f, result |-> fetchedProducts]

\* A catch branch that shows the raw error.
Message_Raw(err) == err

\* What the catch branch passes to setError.
Message(err) == ErrorMessage

\* A catch path without the finally block: setLoading(false) is skipped.
RejectFetch_NoFinally(f, err) ==
  /\ f \in inflight
  /\ fetches' = [fetches EXCEPT ![f].status = "err"]
  /\ error' = Message(err)
  /\ console' = [level |-> "error", payload |-> err]
  /\ loading' = loading
  /\ sinceLoaded' = FALSE
  /\ lastOp' = [op |-> "reject", id |-> f, cause |-> err]
  /\ UNCHANGED <<products, mounted, authoritative, overlapped, invocations,
                 searchText>>

\* The continuation after getProducts() rejected: setError, console.error,
\* and setLoading(false) of the finally block.
RejectFetch(f, err) ==
  /\ f \in inflight
  /\ fetches' = [fetches EXCEPT ![f].status = "err"]
  /\ error' = Message(err)
  /\ console' = [level |-> "error", payload |-> err]
  /\ loading' = FALSE
  /\ sinceLoaded' = FALSE
  /\ lastOp' = [op |-> "reject", id |-> f, cause |-> err]
  /\ UNCHANGED <<products, mounted, authoritative, overlapped, invocations,
                 searchText>>

(* ---------------------------- triggers -------------------------------- *)
\* useEffect(() => { fetchProducts(); }, []) : once, after the first render.
Mount ==
  /\ ~mounted
  /\ mounted' = TRUE
  /\ invocations' = invocations + 1
  /\ FetchProductsStart
  /\ lastOp' = [op |-> "mount", from |-> View]
  /\ UNCHANGED searchText

\* A 'Try Again' button that every view renders.
TryAgain_AnyView ==
  /\ mounted
  /\ invocations' = invocations + 1
  /\ FetchProductsStart
  /\ lastOp' = [op |-> "refresh", from |-> View]
  /\ UNCHANGED <<mounted, searchText>>

\* onPress={fetchProducts} of the 'Try Again' button, which only the Error
\* view renders.
TryAgain ==
  /\ mounted
  /\ View = "Error"
  /\ invocations' = invocations + 1
  /\ FetchProductsStart
  /\ lastOp' = [op |-> "refresh", from |-> View]
  /\ UNCHANGED <<mounted, searchText>>

\* fetchProducts called in any view.
Refresh ==
  /\ mounted
  /\ invocations' = invocations + 1
  /\ FetchProductsStart
  /\ lastOp' = [op |-> "refresh", from |-> View]
  /\ UNCHANGED <<mounted, searchText>>

(* ---------------------------- handleSearch ---------------------------- *)
\* A filter that also reverses the order of the matches.
Filter_Reversed(ps, query) ==
  LET Matches(product) == includes(toLowerCase(product.name), toLowerCase(query))
      kept == SelectSeq(ps, Matches)
  IN [i \in 1..Len(kept) |-> kept[Len(kept) - i + 1]]

\* A filter over the last fetched list instead of the list held.
Filter_FromAuthoritative(ps, query) ==
  LET Matches(product) == includes(toLowerCase(product.name), toLowerCase(query))
  IN SelectSeq(authoritative, Matches)

\* products.filter(p => p.name.toLowerCase().includes(query.toLowerCase()))
Filter(ps, query) ==
  LET Matches(product) == includes(toLowerCase(product.name), toLowerCase(query))
  IN SelectSeq(ps, Matches)

\* onSearch={handleSearch}: the Header is rendered in every view.
HandleSearch(query) ==
  /\ mounted
  /\ products' = Filter(products, query)
  /\ searchText' = query
  /\ lastOp' = [op |-> "search", q |-> query,
                 repeat |-> (lastOp.op = "search" /\ lastOp.q = query)]
  /\ UNCHANGED <<loading, error, mounted, fetches, console, authoritative,
                 sinceLoaded, overlapped, invocations>>

(* ---------------------------- specifications -------------------------- *)
Search == \E query \in Queries : HandleSearch(query)
Resolve == \E f \in inflight, b \in Batches : ResolveFetch(f, b)
Reject == \E f \in inflight, err \in Causes : RejectFetch(f, err)

Next == Mount \/ TryAgain \/ Search \/ Resolve \/ Reject

Spec == Init /\ [][Next]_vars

NextDirect == Mount \/ Refresh \/ Search \/ Resolve \/ Reject

SpecDirect == Init /\ [][NextDirect]_vars

\* A call of getProducts() settles: while fetches are pending, one of them
\* is eventually resolved or rejected.
Settle == Resolve \/ Reject

SpecLive == SpecDirect /\ WF_vars(Settle)

(* ---------------------------- claims ---------------------------------- *)
\* C1: after any search call the product list the component holds is the
\* value set by the last successful fetch, in content and order.
C1_SearchKeepsFetched ==
  lastOp.op = "search" => products = authoritative

\* C2: from a Loaded state, after any sequence of searches with no fetch in
\* between, search("") shows the full list of the last successful fetch.
C2_EmptyQueryRestores ==
  (lastOp.op = "search" /\ lastOp.q = <<>> /\ sinceLoaded)
    => (products = authoritative /\ View = "Loaded")

\* C3: a search issued in the Loaded view that matches no product name
\* leaves the view Loaded, with an empty visible list, and not Empty.
C3_NoMatchStaysLoaded ==
  [][(View = "Loaded" /\ lastOp'.op = "search"
        /\ Filter(products, lastOp'.q) = <<>>)
       => (View' = "Loaded" /\ products' = <<>>)]_vars

\* C4: when overlapping fetches have all completed, the view is the one the
\* fetch that completed last determines: Error if it failed, otherwise
\* Loaded or Empty with its products.
C4_LastCompletionWins ==
  (inflight = {} /\ lastOp.op \in {"resolve", "reject"}
     /\ lastOp.id \in overlapped)
    => IF lastOp.op = "reject"
       THEN View = "Error"
       ELSE /\ products = lastOp.result
            /\ View = (IF lastOp.result = <<>> THEN "Empty" ELSE "Loaded")

\* C5: when a fetch resolves after a fetch that was issued later has already
\* resolved, the product list becomes the result of the older fetch.
C5_StaleOverwrite ==
  (lastOp.op = "resolve"
     /\ \E j \in 1..Len(fetches) : j > lastOp.id /\ fetches[j].status = "ok")
    => products = lastOp.result

C5_Witness ==
  /\ lastOp.op = "resolve"
  /\ \E j \in 1..Len(fetches) : j > lastOp.id /\ fetches[j].status = "ok"
  /\ inflight = {}
  /\ Len(lastOp.result) > 0
  /\ products = lastOp.result

\* C6: as long as no fetch has completed, the view is Loading.
C6_LoadingUntilFirstCompletion ==
  (\A i \in 1..Len(fetches) : fetches[i].status = "pending")
    => View = "Loading"

\* C7: when a fetch that never overlapped another one resolves with a
\* non-empty sequence, the view is Loaded and the product list is that
\* sequence, in the order returned.
C7_SuccessNonEmpty ==
  (lastOp.op = "resolve" /\ lastOp.id \notin overlapped
     /\ Len(lastOp.result) > 0)
    => (View = "Loaded" /\ products = lastOp.result
          /\ authoritative = lastOp.result)

C7_Witness ==
  /\ lastOp.op = "resolve"
  /\ lastOp.id \notin overlapped
  /\ lastOp.result = <<Table, Chair>>
  /\ fetches[lastOp.id].from = "Loaded"
  /\ View = "Loaded"

\* C8: when a fetch that never overlapped another one resolves with zero
\* products, the view is Empty, whatever view the fetch was started from.
C8_SuccessEmpty ==
  (lastOp.op = "resolve" /\ lastOp.id \notin overlapped
     /\ lastOp.result = <<>>)
    => View = "Empty"

C8_Witness ==
  /\ lastOp.op = "resolve"
  /\ lastOp.id \notin overlapped
  /\ lastOp.result = <<>>
  /\ fetches[lastOp.id].from = "Loaded"
  /\ View = "Empty"

\* C9: when a fetch rejects, the view is Error and the message is the one
\* fixed, non-empty string, whatever raw error was raised.
C9_FailureMessage ==
  lastOp.op = "reject"
    => (View = "Error" /\ error = ErrorMessage /\ error # ""
          /\ error \notin Causes)

C9_Witness ==
  /\ lastOp.op = "reject"
  /\ lastOp.cause = "Http500"
  /\ console.level = "error"
  /\ console.payload = "Http500"
  /\ \E i \in 1..Len(fetches) : i # lastOp.id /\ fetches[i].status = "err"
  /\ View = "Error"

\* C10: a refresh from the Error, Empty or Loaded view leaves the view
\* Loading with no error message.
C10_RefreshLoading ==
  (lastOp.op = "refresh" /\ lastOp.from \in {"Error", "Empty", "Loaded"})
    => (View = "Loading" /\ error = Null)

C10_Witness ==
  /\ lastOp.op = "refresh"
  /\ lastOp.from = "Error"
  /\ View = "Loading"
  /\ error = Null

\* name contains query as a substring when letter case is ignored.
ContainsIgnoringCase(name, query) ==
  \E i \in 0..(Len(name) - Len(query)) :
    \A k \in 1..Len(query) : LowerChar(name[i + k]) = LowerChar(query[k])

\* The products of list whose name contains query, in their order in list.
Matching(list, query) ==
  LET Keep(product) == ContainsIgnoringCase(product.name, query)
  IN SelectSeq(list, Keep)

\* C11: a search in the Loaded view shows exactly the products of the last
\* fetched list whose name contains the query, case ignored, in their
\* original order.
C11_SearchFiltersFetched ==
  [][(View = "Loaded" /\ lastOp'.op = "search")
       => products' = Matching(authoritative, lastOp'.q)]_vars

\* C12: a search repeated with the same query leaves the product list as
\* the first of the two calls left it.
C12_SearchIdempotent ==
  [][(lastOp'.op = "search" /\ lastOp'.repeat) => products' = products]_vars

C12_Witness ==
  /\ lastOp.op = "search"
  /\ lastOp.repeat
  /\ Len(lastOp.q) > 0
  /\ Len(products) > 0
  /\ products # authoritative

\* C13: a search in the Loading, Error or Empty view leaves the view as it
\* is.
C13_SearchNoOpOutsideLoaded ==
  [][(lastOp'.op = "search" /\ View \in {"Loading", "Error", "Empty"})
       => View' = View]_vars

C13_Witness ==
  /\ lastOp.op = "search"
  /\ View = "Empty"
  /\ Len(authoritative) > 0
  /\ lastOp.q = <<>>

\* C14: the number of getProducts() calls equals the number of fetchProducts
\* invocations, whatever searches occur.
C14_OneFetchPerInvocation ==
  Len(fetches) = invocations

C14_Witness ==
  /\ lastOp.op = "search"
  /\ invocations = 2
  /\ Cardinality(inflight) = 2

\* C15: in the Loaded view the product list is the last fetched list
\* filtered by the most recent search query.
C15_VisibleIsFilteredFetched ==
  View = "Loaded" => products = Matching(authoritative, searchText)

\* C16: at most one fetch is in flight; the Error view, the only one with
\* the 'Try Again' control, is never shown while a fetch is in flight.
C16_AtMostOneInFlight ==
  /\ Cardinality(inflight) <= 1
  /\ View = "Error" => inflight = {}
  /\ lastOp.op = "refresh" => lastOp.from = "Error"

C16_Witness ==
  /\ lastOp.op = "refresh"
  /\ lastOp.from = "Error"
  /\ Cardinality(inflight) = 1
  /\ Len(fetches) = 2

\* C17: after the mount effect, the view is Loading exactly while a fetch
\* is in flight.
C17_LoadingIffInFlight ==
  mounted => ((inflight # {}) <=> (View = "Loading"))

\* C18: if every fetch settles, every Loading view is eventually followed by
\* Error, Empty or Loaded, and the view is not Loading when no fetch is in
\* flight.
C18_LoadingEnds ==
  /\ (View = "Loading") ~> (View \in {"Error", "Empty", "Loaded"})
  /\ [](inflight = {} => View # "Loading")

C18_Witness ==
  /\ lastOp.op = "reject"
  /\ inflight = {}
  /\ Len(fetches) = 2
  /\ fetches[1].status = "ok"
  /\ View = "Error"

====
